---- MODULE Spec2Model ----
(***************************************************************************)
(* The task queue and worker of api/task_manager.py: the task registry     *)
(* (TaskManager.tasks), its persisted snapshot (outputs/tasks.json), the   *)
(* producer calls create_task / create_batch_task / get_task / shutdown,   *)
(* and the worker thread (_worker, _process_task, _process_batch_task).    *)
(*                                                                         *)
(* Threads interleave at the statements of the source.  A block guarded by *)
(* "with self.lock" is one step unless it contains the file write of       *)
(* _save_tasks, which is two steps (lock taken and file opened; file       *)
(* written and lock released).  Field writes the worker makes outside the  *)
(* lock are one step each.                                                 *)
(***************************************************************************)
EXTENDS Integers, Sequences, FiniteSets, TLC

\* ------------------------------------------------------------------ bounds
MaxTasks == 2        \* task records created over a whole run
QueueTasks == 3      \* the same, where only single tasks are created
MaxBatch == 3        \* entries of one batch's speeches
MaxBatchTasks == 1   \* batch records in the registry at the same time
MaxClock == 1        \* last value of the clock (seconds)
MaxCalls == 2        \* producer calls in progress at the same time
MaxRestarts == 1     \* process restarts over a whole run
LoadRecords == 3     \* records of a file found at startup
StopTasks == 2       \* task records created where shutdown is called
ClockTasks == 2      \* tasks created while the clock runs
ReadTasks == 1       \* task records created where lookups are recorded
MaxGets == 3         \* get_task calls whose results are recorded
LockTasks == 1       \* task records created where threads wait for the lock
StopBatch == 1       \* entries of a batch's speeches there

\* ------------------------------------------------------- program constants
\* __init__ starts one worker thread.
TwoWorkers == 1 + 1
NumWorkers == 1

Workers == 1..NumWorkers

PENDING == "pending"
PROCESSING == "processing"
COMPLETED == "completed"
FAILED == "failed"
TaskStatus == {PENDING, PROCESSING, COMPLETED, FAILED}

\* Optional[...]: None is the empty sequence, a value v is <<v>>.
None == <<>>
Some(v) == <<v>>

InferModes == {"normal", "fast"}
Texts == {"hello"}
PromptPaths == {"prompts/p.wav"}
OutputPaths == {"out/x.wav"}
OutputDirs == {"out"}
\* Messages of the exceptions the engine, its construction and makedirs raise.
EngineMsgs == {"device busy"}
InitMsg == "init failed"
MkdirMsg == "mkdir failed"
BATCH_PROCESS == <<"batch_process">>

\* speeches of n entries: an ordered mapping filename -> text.
FileName(i) == <<"wav", i>>
Speeches(n) == [i \in 1..n |-> [filename |-> FileName(i), text |-> "hello"]]

VARIABLES
  heap,      \* the task objects of this process, by reference (1..Len(heap))
  tasks,     \* self.tasks: references in the dict's key order
  file,      \* outputs/tasks.json
  lock,      \* self.lock: None when free, else <<holder>>
  saving,    \* tasks_data of the _save_tasks call that holds the lock
  tts_model, \* self.tts_model: "None" or "ready"
  running,   \* self.running
  now,       \* time.time(), in seconds
  calls,     \* the producer calls in progress
  wpc,       \* each worker thread's position
  cur,       \* each worker's next_task (0 when None)
  item,      \* each worker's position in the batch loop
  exc,       \* the message of the exception a worker is handling
  wlog,      \* history: the engine calls a worker made for its current task
  origin,    \* history: the constructor arguments of each task object
  inserted,  \* history: the references in the order they were put in tasks
  ncreated,  \* history: number of task records created so far
  restarts   \* history: number of restarts so far

vars == <<heap, tasks, file, lock, saving, tts_model, running, now, calls,
          wpc, cur, item, exc, wlog, origin, inserted, ncreated, restarts>>

\* --------------------------------------------------------- task records
TTSTask(task_id, text, prompt_path, output_path, infer_mode) ==
  [cls |-> "TTSTask", task_id |-> task_id, text |-> text,
   prompt_path |-> prompt_path, output_path |-> output_path,
   infer_mode |-> infer_mode, status |-> PENDING,
   start_time |-> None, end_time |-> None, error |-> None]

BatchTTSTask(task_id, speeches, prompt_path, output_directory, infer_mode) ==
  [cls |-> "BatchTTSTask", task_id |-> task_id, speeches |-> speeches,
   prompt_path |-> prompt_path, output_directory |-> output_directory,
   infer_mode |-> infer_mode, status |-> PENDING,
   start_time |-> None, end_time |-> None,
   total_files |-> Len(speeches), processed_files |-> 0, errors |-> <<>>]

IsBatch(t) == t.cls = "BatchTTSTask"

process_timeEndOnly(t) == IF t.end_time = None THEN None ELSE Some(0)

\* process_time, without the rounding: None unless both times are set.
process_time(t) ==
  IF t.start_time = None THEN None
  ELSE IF t.end_time = None THEN None
  ELSE Some(t.end_time[1] - t.start_time[1])

TTSTask_to_dict(t) ==
  [task_id |-> t.task_id, text |-> t.text, prompt_path |-> t.prompt_path,
   output_path |-> t.output_path, infer_mode |-> t.infer_mode,
   status |-> t.status, start_time |-> t.start_time,
   end_time |-> t.end_time, error |-> t.error]

BatchTTSTask_to_dict(t) ==
  [task_id |-> t.task_id, speeches |-> t.speeches,
   prompt_path |-> t.prompt_path, output_directory |-> t.output_directory,
   infer_mode |-> t.infer_mode, status |-> t.status,
   start_time |-> t.start_time, end_time |-> t.end_time,
   total_files |-> t.total_files, processed_files |-> t.processed_files,
   errors |-> t.errors, task_type |-> "batch"]

to_dict(t) == IF IsBatch(t) THEN BatchTTSTask_to_dict(t) ELSE TTSTask_to_dict(t)

TTSTask_keys ==
  {"task_id", "text", "prompt_path", "output_path", "infer_mode",
   "status", "start_time", "end_time", "error"}

BatchTTSTask_keys ==
  {"task_id", "speeches", "prompt_path", "output_directory", "infer_mode",
   "status", "start_time", "end_time", "total_files", "processed_files",
   "errors"}

TTSTask_from_dict(d) ==
  [TTSTask(d.task_id, d.text, d.prompt_path, d.output_path, d.infer_mode)
     EXCEPT !.status = d.status, !.start_time = d.start_time,
            !.end_time = d.end_time, !.error = d.error]

BatchTTSTask_from_dictFresh(d) ==
  [BatchTTSTask(d.task_id, d.speeches, d.prompt_path, d.output_directory,
                d.infer_mode)
     EXCEPT !.status = d.status, !.start_time = d.start_time,
            !.end_time = d.end_time]
BatchTTSTask_from_dict(d) ==
  [BatchTTSTask(d.task_id, d.speeches, d.prompt_path, d.output_directory,
                d.infer_mode)
     EXCEPT !.status = d.status, !.start_time = d.start_time,
            !.end_time = d.end_time, !.total_files = d.total_files,
            !.processed_files = d.processed_files, !.errors = d.errors]

\* task_data.get("task_type") == "batch"
IsBatchDict(d) == "task_type" \in DOMAIN d /\ d.task_type = "batch"

\* from_dict raises KeyError on a missing key.
Parses(d) ==
  IF IsBatchDict(d) THEN BatchTTSTask_keys \subseteq DOMAIN d
  ELSE TTSTask_keys \subseteq DOMAIN d

ParseTask(d) ==
  IF IsBatchDict(d) THEN BatchTTSTask_from_dict(d) ELSE TTSTask_from_dict(d)

\* ------------------------------------------------------------ the file
NoFile == [state |-> "absent", data |-> <<>>]
OpenedFile == [state |-> "partial", data |-> <<>>]
WrittenFile(data) == [state |-> "valid", data |-> data]

\* tasks_data of _save_tasks: task_id -> to_dict, in the dict's order.
tasks_data ==
  [i \in 1..Len(tasks) |->
     [key |-> heap[tasks[i]].task_id, val |-> to_dict(heap[tasks[i]])]]

\* _load_tasks: the records of the file, or none at all when the file is
\* absent, is not complete JSON, or holds a record from_dict raises on.
load_tasks(f) ==
  IF f.state # "valid" THEN <<>>
  ELSE IF \E i \in 1..Len(f.data) : ~Parses(f.data[i].val) THEN <<>>
  ELSE [i \in 1..Len(f.data) |-> ParseTask(f.data[i].val)]

ArgsOf(t) ==
  IF IsBatch(t)
  THEN <<t.speeches, t.prompt_path, t.output_directory, t.infer_mode>>
  ELSE <<t.text, t.prompt_path, t.output_path, t.infer_mode>>

\* ------------------------------------------------------------ registry
\* Position of key id in tasks, 0 when absent.
KeyPos(id) ==
  IF \E i \in 1..Len(tasks) : heap[tasks[i]].task_id = id
  THEN CHOOSE i \in 1..Len(tasks) : heap[tasks[i]].task_id = id
  ELSE 0

\* self.tasks[task_id] = task: a new key goes last, an existing key keeps its
\* place and gets the new object.
put(ref) ==
  LET p == KeyPos(heap[ref].task_id)
  IN  IF p = 0 THEN Append(tasks, ref) ELSE [tasks EXCEPT ![p] = ref]

\* self.tasks.get(task_id): the reference, 0 when absent.
get(id) == IF KeyPos(id) = 0 THEN 0 ELSE tasks[KeyPos(id)]

InRegistry(ref) == \E i \in 1..Len(tasks) : tasks[i] = ref

\* ------------------------------------------------------------- start
Idle == [w \in Workers |-> "loop"]

Init ==
  /\ heap = <<>>
  /\ tasks = <<>>
  /\ file = NoFile
  /\ lock = None
  /\ saving = None
  /\ tts_model \in {"None", "ready"}
  /\ running = TRUE
  /\ now = 0
  /\ calls = {}
  /\ wpc = Idle
  /\ cur = [w \in Workers |-> 0]
  /\ item = [w \in Workers |-> 0]
  /\ exc = [w \in Workers |-> ""]
  /\ wlog = [w \in Workers |-> <<>>]
  /\ origin = <<>>
  /\ inserted = <<>>
  /\ ncreated = 0
  /\ restarts = 0

\* The clock advances.
Tick ==
  /\ now < MaxClock
  /\ now' = now + 1
  /\ UNCHANGED <<heap, tasks, file, lock, saving, tts_model, running, calls,
                 wpc, cur, item, exc, wlog, origin, inserted, ncreated,
                 restarts>>

\* ------------------------------------------------------ producer calls
CreateCalls == {c \in calls : c.kind = "create"}

\* f"task_{int(time.time())}_{len(self.tasks)}", read without the lock.
new_task_id == <<"task", now, Len(tasks)>>

\* str(uuid.uuid4()): a value no earlier call produced.
new_uuid == <<"uuid", ncreated + 1>>

Allocate(t, limit) ==
  /\ ncreated < limit
  /\ Cardinality(CreateCalls) < MaxCalls
  /\ heap' = Append(heap, t)
  /\ origin' = Append(origin, ArgsOf(t))
  /\ ncreated' = ncreated + 1
  /\ calls' = calls \cup {[kind |-> "create", ref |-> Len(heap) + 1, pc |-> "put"]}
  /\ UNCHANGED <<tasks, file, lock, saving, tts_model, running, now, wpc, cur,
                 item, exc, wlog, inserted, restarts>>

\* create_task up to the lock: the ID is derived and the record constructed.
CreateTaskIn(modes, limit) ==
  \E text \in Texts, prompt \in PromptPaths, out \in OutputPaths, mode \in modes :
    Allocate(TTSTask(new_task_id, text, prompt, out, mode), limit)

CreateTask(limit) == CreateTaskIn(InferModes, limit)

\* create_batch_task up to the lock.
CreateBatchIn(sizes, modes, limit) ==
  /\ Cardinality({r \in 1..Len(heap) : IsBatch(heap[r])}) < MaxBatchTasks
  /\ \E n \in sizes, prompt \in PromptPaths, dir \in OutputDirs, mode \in modes :
    Allocate(BatchTTSTask(new_uuid, Speeches(n), prompt, dir, mode), limit)

CreateBatchTask(limit) == CreateBatchIn(0..MaxBatch, InferModes, limit)

\* with self.lock: self.tasks[task_id] = task
CallPut(c) ==
  /\ c.kind = "create" /\ c.pc = "put"
  /\ lock = None
  /\ tasks' = put(c.ref)
  /\ inserted' = Append(inserted, c.ref)
  /\ calls' = (calls \ {c}) \cup {[c EXCEPT !.pc = "save"]}
  /\ UNCHANGED <<heap, file, lock, saving, tts_model, running, now, wpc, cur,
                 item, exc, wlog, origin, ncreated, restarts>>

\* _save_tasks, first half: the lock is taken, tasks_data built and the file
\* opened for writing, which empties it.
SaveBegin(holder) ==
  /\ lock = None
  /\ lock' = Some(holder)
  /\ saving' = Some(tasks_data)
  /\ file' = OpenedFile

SaveEndHolding(holder) ==
  /\ lock = Some(holder)
  /\ file' = WrittenFile(saving[1])
  /\ saving' = None
  /\ lock' = lock

\* _save_tasks, second half: json.dump completes and the lock is released.
SaveEnd(holder) ==
  /\ lock = Some(holder)
  /\ file' = WrittenFile(saving[1])
  /\ saving' = None
  /\ lock' = None

CallHolder(c) == <<"call", c.kind, c.ref>>

CallSaveBegin(c) ==
  /\ c.pc = "save"
  /\ SaveBegin(CallHolder(c))
  /\ calls' = (calls \ {c}) \cup {[c EXCEPT !.pc = "write"]}
  /\ UNCHANGED <<heap, tasks, tts_model, running, now, wpc, cur, item, exc,
                 wlog, origin, inserted, ncreated, restarts>>

\* The call returns once its save is done.
CallSaveEnd(c) ==
  /\ c.pc = "write"
  /\ SaveEnd(CallHolder(c))
  /\ calls' = calls \ {c}
  /\ UNCHANGED <<heap, tasks, tts_model, running, now, wpc, cur, item, exc,
                 wlog, origin, inserted, ncreated, restarts>>

get_taskFirst(id) == IF tasks = <<>> THEN None ELSE Some(heap[tasks[1]])

\* get_task: the lookup under the lock; the caller gets the live object.
get_task(id) == IF get(id) = 0 THEN None ELSE Some(heap[get(id)])

KnownIds == {heap[r].task_id : r \in 1..Len(heap)} \cup {<<"task", 0, MaxTasks>>}

GetTask ==
  \E id \in KnownIds :
    /\ lock = None
    /\ get_task(id) \in {None} \cup {Some(heap[r]) : r \in 1..Len(heap)}
    /\ UNCHANGED vars

\* A shutdown call; its kind tells whether it found the manager running.
IsShutdown(c) == c.kind \in {"shutdown", "shutdown_again"}

\* shutdown: self.running = False, then the join.
Shutdown ==
  /\ ~ \E c \in calls : IsShutdown(c)
  /\ running' = FALSE
  /\ calls' = calls \cup {[kind |-> IF running THEN "shutdown" ELSE "shutdown_again",
                           ref |-> 0, pc |-> "join"]}
  /\ UNCHANGED <<heap, tasks, file, lock, saving, tts_model, now, wpc, cur,
                 item, exc, wlog, origin, inserted, ncreated, restarts>>

\* worker_thread.join(timeout=5) returns: the worker ended or the time is up.
ShutdownJoin(c) ==
  /\ IsShutdown(c) /\ c.pc = "join"
  /\ calls' = (calls \ {c}) \cup {[c EXCEPT !.pc = "save"]}
  /\ UNCHANGED <<heap, tasks, file, lock, saving, tts_model, running, now,
                 wpc, cur, item, exc, wlog, origin, inserted, ncreated,
                 restarts>>

\* The process ends at any point and a new TaskManager is constructed:
\* _load_tasks, the eager _initialize_model (which may fail), a new worker.
Restart ==
  /\ restarts < MaxRestarts
  /\ restarts' = restarts + 1
  /\ heap' = load_tasks(file)
  /\ tasks' = [i \in 1..Len(heap') |-> i]
  /\ origin' = [i \in 1..Len(heap') |-> ArgsOf(heap'[i])]
  /\ inserted' = tasks'
  /\ lock' = None
  /\ saving' = None
  /\ tts_model' \in {"None", "ready"}
  /\ running' = TRUE
  /\ calls' = {}
  /\ wpc' = Idle
  /\ cur' = [w \in Workers |-> 0]
  /\ item' = [w \in Workers |-> 0]
  /\ exc' = [w \in Workers |-> ""]
  /\ wlog' = [w \in Workers |-> <<>>]
  /\ UNCHANGED <<file, now, ncreated>>

\* ---------------------------------------------------------- the worker
\* All the variables a worker step leaves alone besides heap, the worker's
\* own and the engine handle.
WorkerFrame ==
  UNCHANGED <<tasks, file, lock, saving, running, now, calls, origin,
              inserted, ncreated, restarts>>

WorkerHolder(w) == <<"worker", "thread", w>>

Goto(w, pc) == wpc' = [wpc EXCEPT ![w] = pc]

\* An engine call as the history records it.
EngineCall(method, text, out) ==
  [method |-> method, text |-> text, out |-> out, outcome |-> "running"]

Method(mode) == IF mode = "normal" THEN "infer" ELSE "infer_fast"

Returned(log, outcome) == [log EXCEPT ![Len(log)].outcome = outcome]

\* Engine calls started and neither returned nor thrown.
InFlight ==
  Cardinality(UNION {{<<w, i>> : i \in {j \in DOMAIN wlog[w] :
                                          wlog[w][j].outcome = "running"}} :
                     w \in Workers})

\* if task.status == TaskStatus.PENDING
IsClaimableRetry(t) == t.status \in {PENDING, FAILED}
IsClaimableResume(t) == t.status \in {PENDING, PROCESSING}
IsClaimableIdle(t) == t.status # PROCESSING
IsClaimable(t) == t.status = PENDING

\* scan_for_pending: the first claimable record in the dict's order, 0 if none.
FirstPending ==
  IF \E i \in 1..Len(tasks) : IsClaimable(heap[tasks[i]])
  THEN CHOOSE i \in 1..Len(tasks) :
         /\ IsClaimable(heap[tasks[i]])
         /\ \A j \in 1..(i - 1) : ~IsClaimable(heap[tasks[j]])
  ELSE 0

\* while self.running
LoopTestForever == TRUE
LoopTest == running

\* while self.running: ... next_task = None
WLoop(w) ==
  /\ wpc[w] = "loop"
  /\ IF LoopTest THEN Goto(w, "scan") ELSE Goto(w, "stopped")
  /\ cur' = [cur EXCEPT ![w] = 0]
  /\ wlog' = [wlog EXCEPT ![w] = <<>>]
  /\ UNCHANGED <<heap, tts_model, item, exc>>
  /\ WorkerFrame

\* task.status = TaskStatus.PROCESSING, then break
ClaimAll(h, r) ==
  [q \in 1..Len(h) |->
     IF InRegistry(q) /\ IsClaimable(h[q])
     THEN [h[q] EXCEPT !.status = PROCESSING] ELSE h[q]]
Claim(h, r) == [h EXCEPT ![r].status = PROCESSING]

\* The locked scan: claim the first pending record, or sleep and loop.
WScan(w) ==
  /\ wpc[w] = "scan"
  /\ lock = None
  /\ IF FirstPending # 0
     THEN /\ heap' = Claim(heap, tasks[FirstPending])
          /\ cur' = [cur EXCEPT ![w] = tasks[FirstPending]]
          /\ Goto(w, "claim_save")
     ELSE /\ Goto(w, "loop")
          /\ UNCHANGED <<heap, cur>>
  /\ UNCHANGED <<tts_model, item, exc, wlog>>
  /\ WorkerFrame

SavePcs == {"claim_save", "start_save", "item_save", "final_save"}

WritePc(pc) ==
  CASE pc = "claim_save" -> "claim_write"
    [] pc = "start_save" -> "start_write"
    [] pc = "item_save" -> "item_write"
    [] pc = "final_save" -> "final_write"

\* Where the worker goes on after a _save_tasks call returns.
AfterSave(pc, t) ==
  CASE pc = "claim_write" -> "init"
    [] pc = "start_write" -> IF IsBatch(t) THEN "makedirs" ELSE "infer"
    [] pc = "item_write" -> "items"
    [] pc = "final_write" -> "loop"

WSaveBegin(w) ==
  /\ wpc[w] \in SavePcs
  /\ SaveBegin(WorkerHolder(w))
  /\ Goto(w, WritePc(wpc[w]))
  /\ UNCHANGED <<heap, tasks, tts_model, running, now, calls, cur, item, exc,
                 wlog, origin, inserted, ncreated, restarts>>

WSaveEnd(w) ==
  /\ wpc[w] \in {WritePc(pc) : pc \in SavePcs}
  /\ SaveEnd(WorkerHolder(w))
  /\ Goto(w, AfterSave(wpc[w], heap[cur[w]]))
  /\ item' = [item EXCEPT ![w] = IF wpc[w] = "item_write" THEN @ + 1 ELSE @]
  /\ UNCHANGED <<heap, tasks, tts_model, running, now, calls, cur, exc,
                 wlog, origin, inserted, ncreated, restarts>>

\* The handler an exception raised in the outer try of the task goes to.
HandlerUncaught(t) == "stopped"
Handler(t) == IF IsBatch(t) THEN "b_except" ELSE "except"

\* raise in _initialize_model: the exception goes on to the caller's handler.
AfterInitErrorSwallowed(t) == "start"
AfterInitError(t) == Handler(t)

\* _initialize_model: constructs the engine when there is none; the
\* construction may raise.
WInit(w) ==
  /\ wpc[w] = "init"
  /\ \/ /\ tts_model' = "ready"
        /\ Goto(w, "start")
        /\ UNCHANGED exc
     \/ /\ tts_model = "None"
        /\ UNCHANGED tts_model
        /\ exc' = [exc EXCEPT ![w] = InitMsg]
        /\ Goto(w, AfterInitError(heap[cur[w]]))
  /\ UNCHANGED <<heap, cur, item, wlog>>
  /\ WorkerFrame

\* task.start_time = time.time()
WStart(w) ==
  /\ wpc[w] = "start"
  /\ heap' = [heap EXCEPT ![cur[w]].start_time = Some(now)]
  /\ Goto(w, "start_save")
  /\ UNCHANGED <<tts_model, cur, item, exc, wlog>>
  /\ WorkerFrame

\* self._save_tasks() after the try/except of the processing routines.
FinalSaveSkipped == "loop"
FinalSave == "final_save"

\* ------------------------------------------------------- _process_task
\* self.tts_model.infer(...) or infer_fast(...) is entered.
WInfer(w) ==
  /\ wpc[w] = "infer"
  /\ LET t == heap[cur[w]]
     IN  wlog' = [wlog EXCEPT ![w] =
                    Append(@, EngineCall(Method(t.infer_mode), t.text, t.output_path))]
  /\ Goto(w, "infer_wait")
  /\ UNCHANGED <<heap, tts_model, cur, item, exc>>
  /\ WorkerFrame

\* The engine call returns, or raises with some message.
WInferReturn(w) ==
  /\ wpc[w] = "infer_wait"
  /\ \/ /\ wlog' = [wlog EXCEPT ![w] = Returned(@, "ok")]
        /\ Goto(w, "set_end")
        /\ UNCHANGED exc
     \/ \E m \in EngineMsgs :
          /\ wlog' = [wlog EXCEPT ![w] = Returned(@, m)]
          /\ exc' = [exc EXCEPT ![w] = m]
          /\ Goto(w, "except")
  /\ UNCHANGED <<heap, tts_model, cur, item>>
  /\ WorkerFrame

\* task.end_time = time.time()
WSetEnd(w) ==
  /\ wpc[w] = "set_end"
  /\ heap' = [heap EXCEPT ![cur[w]].end_time = Some(now)]
  /\ Goto(w, "set_completed")
  /\ UNCHANGED <<tts_model, cur, item, exc, wlog>>
  /\ WorkerFrame

\* task.status = TaskStatus.COMPLETED
WSetCompleted(w) ==
  /\ wpc[w] = "set_completed"
  /\ heap' = [heap EXCEPT ![cur[w]].status = COMPLETED]
  /\ Goto(w, FinalSave)
  /\ UNCHANGED <<tts_model, cur, item, exc, wlog>>
  /\ WorkerFrame

\* str(e) of the exception handled
strGeneric(m) == "error"
str(m) == m

\* except Exception as e: task.error = str(e)
WExcept(w) ==
  /\ wpc[w] = "except"
  /\ heap' = [heap EXCEPT ![cur[w]].error = Some(str(exc[w]))]
  /\ exc' = [exc EXCEPT ![w] = ""]
  /\ Goto(w, "set_failed")
  /\ UNCHANGED <<tts_model, cur, item, wlog>>
  /\ WorkerFrame

\* task.status = TaskStatus.FAILED
WSetFailed(w) ==
  /\ wpc[w] = "set_failed"
  /\ heap' = [heap EXCEPT ![cur[w]].status = FAILED]
  /\ Goto(w, "fail_end")
  /\ UNCHANGED <<tts_model, cur, item, exc, wlog>>
  /\ WorkerFrame

\* task.end_time = time.time(), in the handler
WFailEnd(w) ==
  /\ wpc[w] = "fail_end"
  /\ heap' = [heap EXCEPT ![cur[w]].end_time = Some(now)]
  /\ Goto(w, FinalSave)
  /\ UNCHANGED <<tts_model, cur, item, exc, wlog>>
  /\ WorkerFrame

\* ------------------------------------------------- _process_batch_task
\* os.makedirs(task.output_directory, exist_ok=True), which may raise; then
\* the loop over task.speeches.items() starts.
WMakedirs(w) ==
  /\ wpc[w] = "makedirs"
  /\ \/ /\ item' = [item EXCEPT ![w] = 1]
        /\ Goto(w, "items")
        /\ UNCHANGED exc
     \/ /\ exc' = [exc EXCEPT ![w] = MkdirMsg]
        /\ Goto(w, "b_except")
        /\ UNCHANGED item
  /\ UNCHANGED <<heap, tts_model, cur, wlog>>
  /\ WorkerFrame

\* The loop head: the next entry's engine call is entered, or the loop ends.
WItems(w) ==
  /\ wpc[w] = "items"
  /\ LET t == heap[cur[w]]
     IN  IF item[w] <= Len(t.speeches)
         THEN /\ wlog' = [wlog EXCEPT ![w] =
                            Append(@, EngineCall(Method(t.infer_mode),
                                                 t.speeches[item[w]].text,
                                                 <<t.output_directory,
                                                   t.speeches[item[w]].filename>>))]
              /\ Goto(w, "item_wait")
              /\ UNCHANGED item
         ELSE /\ item' = [item EXCEPT ![w] = 0]
              /\ Goto(w, "b_end")
              /\ UNCHANGED wlog
  /\ UNCHANGED <<heap, tts_model, cur, exc>>
  /\ WorkerFrame

\* The entry's engine call returns, or raises with some message.
WItemReturn(w) ==
  /\ wpc[w] = "item_wait"
  /\ \/ /\ wlog' = [wlog EXCEPT ![w] = Returned(@, "ok")]
        /\ Goto(w, "item_inc")
        /\ UNCHANGED exc
     \/ \E m \in EngineMsgs :
          /\ wlog' = [wlog EXCEPT ![w] = Returned(@, m)]
          /\ exc' = [exc EXCEPT ![w] = m]
          /\ Goto(w, "item_except")
  /\ UNCHANGED <<heap, tts_model, cur, item>>
  /\ WorkerFrame

\* task.processed_files += 1
IncProcessedTwice(t) == [t EXCEPT !.processed_files = @ + 2]
IncProcessed(t) == [t EXCEPT !.processed_files = @ + 1]

WItemInc(w) ==
  /\ wpc[w] = "item_inc"
  /\ heap' = [heap EXCEPT ![cur[w]] = IncProcessed(@)]
  /\ Goto(w, "item_save")
  /\ UNCHANGED <<tts_model, cur, item, exc, wlog>>
  /\ WorkerFrame

\* task.errors.append({"filename": filename, "error": error_msg})
AppendErrorNothing(t, filename, m) == t
AppendError(t, filename, m) ==
  [t EXCEPT !.errors = Append(@, [filename |-> filename, error |-> m])]

\* The loop index after an entry raised: the loop continues with the next.
AfterItemErrorBreak(t, i) == Len(t.speeches) + 1
AfterItemError(t, i) == i + 1

\* The per-entry handler.
WItemExcept(w) ==
  /\ wpc[w] = "item_except"
  /\ LET t == heap[cur[w]]
     IN  /\ heap' = [heap EXCEPT ![cur[w]] =
                       AppendError(t, t.speeches[item[w]].filename, str(exc[w]))]
         /\ item' = [item EXCEPT ![w] = AfterItemError(t, item[w])]
  /\ exc' = [exc EXCEPT ![w] = ""]
  /\ Goto(w, "items")
  /\ UNCHANGED <<tts_model, cur, wlog>>
  /\ WorkerFrame

\* task.end_time = time.time(), after the loop
WBatchEnd(w) ==
  /\ wpc[w] = "b_end"
  /\ heap' = [heap EXCEPT ![cur[w]].end_time = Some(now)]
  /\ Goto(w, "b_status")
  /\ UNCHANGED <<tts_model, cur, item, exc, wlog>>
  /\ WorkerFrame

\* The terminal status of a batch whose loop ended.
BatchFinalStatusAllOrNothing(t) ==
  IF t.processed_files = t.total_files THEN COMPLETED ELSE FAILED
BatchFinalStatus(t) ==
  IF t.processed_files = t.total_files THEN COMPLETED
  ELSE IF t.processed_files > 0 THEN COMPLETED
  ELSE FAILED

WBatchStatus(w) ==
  /\ wpc[w] = "b_status"
  /\ heap' = [heap EXCEPT ![cur[w]].status = BatchFinalStatus(heap[cur[w]])]
  /\ Goto(w, FinalSave)
  /\ UNCHANGED <<tts_model, cur, item, exc, wlog>>
  /\ WorkerFrame

\* The handler of the whole batch:
\* task.errors.append({"filename": "batch_process", "error": str(e)})
WBatchExcept(w) ==
  /\ wpc[w] = "b_except"
  /\ heap' = [heap EXCEPT ![cur[w]] = AppendError(@, BATCH_PROCESS, str(exc[w]))]
  /\ exc' = [exc EXCEPT ![w] = ""]
  /\ Goto(w, "b_failed")
  /\ UNCHANGED <<tts_model, cur, item, wlog>>
  /\ WorkerFrame

WBatchFailed(w) ==
  /\ wpc[w] = "b_failed"
  /\ heap' = [heap EXCEPT ![cur[w]].status = FAILED]
  /\ Goto(w, "b_fail_end")
  /\ UNCHANGED <<tts_model, cur, item, exc, wlog>>
  /\ WorkerFrame

WBatchFailEnd(w) ==
  /\ wpc[w] = "b_fail_end"
  /\ heap' = [heap EXCEPT ![cur[w]].end_time = Some(now)]
  /\ Goto(w, FinalSave)
  /\ UNCHANGED <<tts_model, cur, item, exc, wlog>>
  /\ WorkerFrame

\* ------------------------------------------------------ specification
WorkerStep(w) ==
  \/ WLoop(w) \/ WScan(w) \/ WSaveBegin(w) \/ WSaveEnd(w)
  \/ WInit(w) \/ WStart(w)
  \/ WInfer(w) \/ WInferReturn(w) \/ WSetEnd(w) \/ WSetCompleted(w)
  \/ WExcept(w) \/ WSetFailed(w) \/ WFailEnd(w)
  \/ WMakedirs(w) \/ WItems(w) \/ WItemReturn(w) \/ WItemInc(w)
  \/ WItemExcept(w) \/ WBatchEnd(w) \/ WBatchStatus(w)
  \/ WBatchExcept(w) \/ WBatchFailed(w) \/ WBatchFailEnd(w)

CreateStep(c) ==
  \/ CallPut(c) \/ CallSaveBegin(c) \/ CallSaveEnd(c)

SingleStep(w) ==
  \/ WLoop(w) \/ WScan(w) \/ WSaveBegin(w) \/ WSaveEnd(w)
  \/ WInit(w) \/ WStart(w)
  \/ WInfer(w) \/ WInferReturn(w) \/ WSetEnd(w) \/ WSetCompleted(w)
  \/ WExcept(w) \/ WSetFailed(w) \/ WFailEnd(w)

\* Producers creating single and batch tasks, the worker, and restarts.
Next ==
  \/ CreateTask(MaxTasks)
  \/ CreateBatchTask(MaxTasks)
  \/ GetTask
  \/ Restart
  \/ \E c \in calls : CreateStep(c)
  \/ \E w \in Workers : WorkerStep(w)

Spec == Init /\ [][Next]_vars

\* Producers creating single tasks only, and the worker.
NextQueue ==
  \/ CreateTask(QueueTasks)
  \/ GetTask
  \/ \E c \in calls : CreateStep(c)
  \/ \E w \in Workers : SingleStep(w)

SpecQueue == Init /\ [][NextQueue]_vars

\* The same, with the worker and every producer call scheduled fairly.
SpecQueueLive ==
  /\ SpecQueue
  /\ WF_vars(\E w \in Workers : SingleStep(w))
  /\ WF_vars(\E c \in calls : CreateStep(c))

\* Producers, the worker and restarts while the clock advances.
NextClock ==
  \/ Tick
  \/ CreateTaskIn({"normal"}, ClockTasks)
  \/ CreateBatchIn(0..StopBatch, {"normal"}, ClockTasks)
  \/ Restart
  \/ \E c \in calls : CreateStep(c)
  \/ \E w \in Workers : WorkerStep(w)

SpecClock == Init /\ [][NextClock]_vars

\* The get_task calls that returned, each with the ID asked for, the record
\* returned as the caller reads it on return, and the registry it was read in.
GetCalls == {c \in calls : c.kind = "get"}

\* get_task, its result kept.
GetTaskCall ==
  \E id \in KnownIds :
    /\ lock = None
    /\ Cardinality(GetCalls) < MaxGets
    /\ calls' = calls \cup {[kind |-> "get", ref |-> 0, pc |-> "returned",
                              n |-> Cardinality(GetCalls) + 1, id |-> id,
                              result |-> get_task(id), at |-> <<heap, tasks>>]}
    /\ UNCHANGED <<heap, tasks, file, lock, saving, tts_model, running, now,
                   wpc, cur, item, exc, wlog, origin, inserted, ncreated,
                   restarts>>

\* Producers creating and looking up tasks, and the worker.
NextRead ==
  \/ CreateTaskIn({"normal"}, ReadTasks)
  \/ CreateBatchIn(0..StopBatch, {"normal"}, ReadTasks)
  \/ GetTaskCall
  \/ \E c \in calls : CreateStep(c)
  \/ \E w \in Workers : WorkerStep(w)

SpecRead == Init /\ [][NextRead]_vars

\* Producers, shutdown calls and the worker, every save writing its file.
NextLock ==
  \/ CreateTaskIn({"normal"}, LockTasks)
  \/ CreateBatchIn(0..StopBatch, {"normal"}, LockTasks)
  \/ Shutdown
  \/ \E c \in calls : ShutdownJoin(c) \/ CreateStep(c)
  \/ \E w \in Workers : WorkerStep(w)

SpecLock == Init /\ [][NextLock]_vars

\* A step in which the thread of call reference r (0: shutdown) or worker w
\* takes the lock.
CallAcquire(r) == \E c \in calls : c.ref = r /\ (CallPut(c) \/ CallSaveBegin(c))
WorkerAcquire(w) == WScan(w) \/ WSaveBegin(w)

\* The same with every thread scheduled, every file write ending, and the
\* lock granted to a thread that asks for it again and again.
SpecLockLive ==
  /\ SpecLock
  /\ \A w \in Workers : WF_vars(WorkerStep(w)) /\ SF_vars(WorkerAcquire(w))
  /\ WF_vars(\E c \in calls : ShutdownJoin(c) \/ CreateStep(c))
  /\ \A r \in 0..LockTasks : SF_vars(CallAcquire(r))

\* ------------------------------------------- saves that fail, shutdown
\* Where a caller of _save_tasks goes on when the write raised: the handler
\* in _save_tasks logs the error and the call returns as after a write.
AfterSaveErrorRaised(pc, t) ==
  CASE pc = "claim_write" -> "loop"
    [] pc = "start_write" -> Handler(t)
    [] pc = "item_write" -> "item_except"
    [] pc = "final_write" -> "loop"
AfterSaveError(pc, t) == AfterSave(pc, t)

\* open(self.tasks_file, 'w') raises: the file is left as it was.
WSaveOpenFail(w) ==
  /\ wpc[w] \in SavePcs
  /\ lock = None
  /\ Goto(w, AfterSaveError(WritePc(wpc[w]), heap[cur[w]]))
  /\ item' = [item EXCEPT ![w] = IF wpc[w] = "item_save" THEN @ + 1 ELSE @]
  /\ UNCHANGED <<heap, tasks, file, lock, saving, tts_model, running, now,
                 calls, cur, exc, wlog, origin, inserted, ncreated, restarts>>

\* json.dump raises: the file stays cut short and the lock is released.
WSaveFail(w) ==
  /\ wpc[w] \in {WritePc(pc) : pc \in SavePcs}
  /\ lock = Some(WorkerHolder(w))
  /\ lock' = None
  /\ saving' = None
  /\ Goto(w, AfterSaveError(wpc[w], heap[cur[w]]))
  /\ item' = [item EXCEPT ![w] = IF wpc[w] = "item_write" THEN @ + 1 ELSE @]
  /\ UNCHANGED <<heap, tasks, file, tts_model, running, now, calls, cur, exc,
                 wlog, origin, inserted, ncreated, restarts>>

\* The same in a producer call, which then returns.
CallSaveOpenFail(c) ==
  /\ c.pc = "save"
  /\ lock = None
  /\ calls' = calls \ {c}
  /\ UNCHANGED <<heap, tasks, file, lock, saving, tts_model, running, now,
                 wpc, cur, item, exc, wlog, origin, inserted, ncreated,
                 restarts>>

CallSaveFail(c) ==
  /\ c.pc = "write"
  /\ lock = Some(CallHolder(c))
  /\ lock' = None
  /\ saving' = None
  /\ calls' = calls \ {c}
  /\ UNCHANGED <<heap, tasks, file, tts_model, running, now, wpc, cur, item,
                 exc, wlog, origin, inserted, ncreated, restarts>>

SaveErrorStep ==
  \/ \E w \in Workers : WSaveOpenFail(w) \/ WSaveFail(w)
  \/ \E c \in calls : CallSaveOpenFail(c) \/ CallSaveFail(c)

\* Producers, the worker, saves that fail, and shutdown calls.
NextStop ==
  \/ CreateTaskIn({"normal"}, StopTasks)
  \/ CreateBatchIn(0..StopBatch, {"normal"}, StopTasks)
  \/ Shutdown
  \/ SaveErrorStep
  \/ \E c \in calls : ShutdownJoin(c) \/ CreateStep(c)
  \/ \E w \in Workers : WorkerStep(w)

SpecStop == Init /\ [][NextStop]_vars

\* ------------------------------------------------ a file found at startup
\* d without the key k.
Drop(d, k) == [x \in DOMAIN d \ {k} |-> d[x]]

\* What a file can hold at position i: a record a save wrote, or one with a
\* required key missing.
StoredSingle(i, st) ==
  TTSTask_to_dict([TTSTask(<<"task", 0, i - 1>>, "hello", "prompts/p.wav",
                           "out/x.wav", "normal") EXCEPT !.status = st])

StoredBatch(i) ==
  BatchTTSTask_to_dict(BatchTTSTask(<<"uuid", i>>, Speeches(1),
                                    "prompts/p.wav", "out", "normal"))

StoredRecords(i) ==
  {StoredSingle(i, st) : st \in {PENDING, PROCESSING, COMPLETED}}
    \cup {StoredBatch(i)}
    \cup {Drop(StoredSingle(i, PENDING), "error"), Drop(StoredBatch(i), "errors")}

FilesOfLen(n) ==
  {f \in [1..n -> UNION {StoredRecords(i) : i \in 1..n}] :
     \A i \in 1..n : f[i] \in StoredRecords(i)}

\* The files a new manager can find: none, one cut short, or a complete one
\* of up to LoadRecords records.
Files ==
  {NoFile, OpenedFile}
    \cup UNION {{WrittenFile([i \in 1..n |-> [key |-> f[i].task_id, val |-> f[i]]]) :
                   f \in FilesOfLen(n)} : n \in 0..LoadRecords}

\* The state after TaskManager.__init__ found file f.
InitLoad ==
  /\ file \in Files
  /\ heap = load_tasks(file)
  /\ tasks = [i \in 1..Len(heap) |-> i]
  /\ origin = [i \in 1..Len(heap) |-> ArgsOf(heap[i])]
  /\ inserted = tasks
  /\ lock = None
  /\ saving = None
  /\ tts_model \in {"None", "ready"}
  /\ running = TRUE
  /\ now = 0
  /\ calls = {}
  /\ wpc = Idle
  /\ cur = [w \in Workers |-> 0]
  /\ item = [w \in Workers |-> 0]
  /\ exc = [w \in Workers |-> ""]
  /\ wlog = [w \in Workers |-> <<>>]
  /\ ncreated = 0
  /\ restarts = 0

\* A manager started on a file it found, its worker, readers, and a restart.
NextLoad ==
  \/ GetTask
  \/ Restart
  \/ \E w \in Workers : WorkerStep(w)

SpecLoad == InitLoad /\ [][NextLoad]_vars

\* ============================================================== claims
Refs == 1..Len(heap)
Terminal(t) == t.status \in {COMPLETED, FAILED}
IsRestart == restarts' # restarts
\* The file holds exactly what a save of the registry would write now.
FileCurrent == file = WrittenFile(tasks_data)

\* One step of the status state machine, or no step.
Forward(s, t) ==
  \/ s = t
  \/ s = PENDING /\ t = PROCESSING
  \/ s = PROCESSING /\ t \in {COMPLETED, FAILED}

\* C1: every task record starts PENDING and its status only moves along
\* PENDING -> PROCESSING -> {COMPLETED, FAILED}, over every step of producers
\* and the worker; a restart that loads a file written by a save of the
\* current registry keeps every record's status.
C1_StatusForward ==
  [][/\ ~IsRestart =>
          /\ Len(heap') >= Len(heap)
          /\ \A r \in Refs : Forward(heap[r].status, heap'[r].status)
          /\ \A r \in 1..Len(heap') : r > Len(heap) => heap'[r].status = PENDING
     /\ (IsRestart /\ FileCurrent) =>
          /\ Len(tasks') = Len(tasks)
          /\ \A i \in 1..Len(tasks) :
               /\ heap'[tasks'[i]].task_id = heap[tasks[i]].task_id
               /\ heap'[tasks'[i]].status = heap[tasks[i]].status]_vars

\* A restart has reloaded one COMPLETED and one FAILED record.
C1_Witness ==
  /\ restarts = 1
  /\ \E i, j \in 1..Len(tasks) :
       heap[tasks[i]].status = COMPLETED /\ heap[tasks[j]].status = FAILED

InsertedBefore(a, b) ==
  \E i, j \in 1..Len(inserted) : i < j /\ inserted[i] = a /\ inserted[j] = b

\* C2: FIFO: whenever the worker moves a record from PENDING to PROCESSING,
\* no record of the registry that was inserted before it is still PENDING.
C2_Fifo ==
  [][\A r \in Refs :
       (heap[r].status = PENDING /\ heap'[r].status = PROCESSING) =>
         ~ \E q \in Refs :
             /\ InRegistry(q)
             /\ heap[q].status = PENDING
             /\ InsertedBefore(q, r)]_vars

\* No two task objects of the process carry the same ID.
DistinctIds == \A a, b \in Refs : a # b => heap[a].task_id # heap[b].task_id

\* The order of C2 as it holds from states in which all IDs are distinct.
FifoWithDistinctIds ==
  [][DistinctIds =>
       \A r \in Refs :
         (heap[r].status = PENDING /\ heap'[r].status = PROCESSING) =>
           ~ \E q \in Refs :
               /\ InRegistry(q)
               /\ heap[q].status = PENDING
               /\ InsertedBefore(q, r)]_vars

\* C3: at most one engine call is in flight.
C3_OneEngineCall == InFlight \in {0, 1}

\* An engine call is in flight while a producer call is in progress.
C3_Witness == InFlight = 1 /\ calls # {}

\* The create calls that have returned their ID.
ReturnedRefs ==
  {r \in Refs : (\E i \in 1..Len(inserted) : inserted[i] = r)
                /\ ~ \E c \in calls : c.ref = r}

\* C4: the IDs returned by create calls are pairwise different and every
\* created record is the one get_task returns for its ID.
C4_UniqueIds ==
  \A a \in ReturnedRefs :
    /\ get(heap[a].task_id) = a
    /\ \A b \in ReturnedRefs : a # b => heap[a].task_id # heap[b].task_id

\* C5: under fair scheduling, every record that is PENDING in the registry
\* eventually becomes COMPLETED or FAILED.
C5_EventuallyTerminal ==
  \A r \in 1..QueueTasks :
    (r <= Len(heap) /\ InRegistry(r) /\ heap[r].status = PENDING)
      ~> (r <= Len(heap) /\ Terminal(heap[r]))

\* The progress of C5 as it holds for the records that stay in the registry:
\* a PENDING record ends COMPLETED or FAILED unless a later create replaces
\* it under its ID.
TerminalUnlessReplaced ==
  \A r \in 1..QueueTasks :
    (r <= Len(heap) /\ InRegistry(r) /\ heap[r].status = PENDING)
      ~> (r <= Len(heap) /\ (Terminal(heap[r]) \/ ~InRegistry(r)))

\* The worker is past the try/except of the task it claimed.
Processed(w) == cur[w] # 0 /\ wpc[w] \in {"final_save", "final_write", "loop"}

\* C6: once the worker is through with a single task: the engine was called
\* at most once; if the call returned, the task is COMPLETED with no error
\* and its constructor arguments unchanged; if it raised with message m, the
\* task is FAILED with error m; end_time is set in both cases.
C6_SingleOutcome ==
  \A w \in Workers :
    (Processed(w) /\ ~IsBatch(heap[cur[w]])) =>
      LET t == heap[cur[w]]
          log == wlog[w]
      IN  /\ Len(log) <= 1
          /\ t.end_time # None
          /\ Terminal(t)
          /\ (Len(log) = 1 /\ log[1].outcome = "ok") =>
               /\ t.status = COMPLETED
               /\ t.error = None
               /\ ArgsOf(t) = origin[cur[w]]
          /\ (Len(log) = 1 /\ log[1].outcome \in EngineMsgs) =>
               /\ t.status = FAILED
               /\ t.error = Some(log[1].outcome)

\* The worker is through with a single task whose engine call raised, and
\* another single task ended COMPLETED.
C6_Witness ==
  \E w \in Workers :
    /\ Processed(w) /\ wpc[w] = "loop"
    /\ ~IsBatch(heap[cur[w]])
    /\ heap[cur[w]].status = FAILED
    /\ heap[cur[w]].error = Some("device busy")
    /\ \E r \in Refs : ~IsBatch(heap[r]) /\ heap[r].status = COMPLETED

\* The worker's current task is a batch.
OnBatch(w) == cur[w] # 0 /\ IsBatch(heap[cur[w]])

\* The record holds an entry of the handler of the whole batch.
HasBatchError(t) ==
  \E i \in 1..Len(t.errors) : t.errors[i].filename = BATCH_PROCESS

\* The worker has left the loop over the entries by its end.
LoopDone(w) ==
  \/ wpc[w] \in {"b_end", "b_status"}
  \/ /\ wpc[w] \in {"final_save", "final_write", "loop"}
     /\ ~HasBatchError(heap[cur[w]])

\* C7: while and after the worker processes a batch, the engine calls made
\* are, in order, the calls for the first entries of speeches, one call per
\* entry with the entry's text and output path; once the loop has ended
\* there is one finished call for every entry, whichever entries raised; no
\* call is made when the loop is not reached.
C7_EveryEntryInvoked ==
  \A w \in Workers :
    OnBatch(w) =>
      LET t == heap[cur[w]]
          log == wlog[w]
      IN  /\ Len(log) <= Len(t.speeches)
          /\ \A i \in 1..Len(log) :
               /\ log[i].method = Method(t.infer_mode)
               /\ log[i].text = t.speeches[i].text
               /\ log[i].out = <<t.output_directory, t.speeches[i].filename>>
               /\ i < Len(log) => log[i].outcome # "running"
          /\ LoopDone(w) =>
               /\ Len(log) = Len(t.speeches)
               /\ \A i \in 1..Len(log) : log[i].outcome # "running"
          /\ HasBatchError(t) => log = <<>>

\* The loop over three entries has ended; the first entry raised and the two
\* after it were still attempted.
C7_Witness ==
  \E w \in Workers :
    /\ OnBatch(w)
    /\ wpc[w] = "b_end"
    /\ Len(heap[cur[w]].speeches) = 3
    /\ Len(wlog[w]) = 3
    /\ wlog[w][1].outcome = "device busy"
    /\ wlog[w][3].outcome = "ok"

\* C8 as stated: a batch in a terminal state is FAILED exactly when
\* processed_files is 0 and COMPLETED exactly when processed_files is
\* positive, for every total_files >= 0.
C8_FailedIffNoneProcessed ==
  \A r \in Refs :
    (IsBatch(heap[r]) /\ Terminal(heap[r])) =>
      /\ heap[r].status = FAILED <=> heap[r].processed_files = 0
      /\ heap[r].status = COMPLETED <=> heap[r].processed_files > 0

\* C8: a batch in a terminal state is COMPLETED exactly when at least one
\* entry was synthesized or it has no entries and its loop was reached
\* (processed_files = total_files = 0), and FAILED otherwise, whether or not
\* errors is empty.
C8_TerminalPolicy ==
  \A r \in Refs :
    (IsBatch(heap[r]) /\ Terminal(heap[r])) =>
      LET t == heap[r]
      IN  t.status =
            IF \/ t.processed_files > 0
               \/ t.total_files = 0 /\ ~HasBatchError(t)
            THEN COMPLETED ELSE FAILED

\* A batch without entries ended COMPLETED with processed_files 0.
C8_Witness ==
  \E r \in Refs :
    /\ IsBatch(heap[r])
    /\ heap[r].total_files = 0
    /\ heap[r].processed_files = 0
    /\ heap[r].errors = <<>>
    /\ heap[r].status = COMPLETED

BatchProgress(t) ==
  /\ 0 <= t.processed_files
  /\ t.processed_files <= t.total_files
  /\ t.total_files = Len(t.speeches)

\* No step takes progress back or changes the entries of a batch.
BatchKeeps(s, t) ==
  /\ IsBatch(t)
  /\ t.speeches = s.speeches
  /\ t.total_files = s.total_files
  /\ t.processed_files >= s.processed_files

\* C9: every batch record has 0 <= processed_files <= total_files and
\* total_files equal to the number of entries it was created with; no step
\* of producers or the worker changes the entries or lowers
\* processed_files, and neither does a restart that loads a file written by
\* a save of the current registry.
C9_BatchProgress ==
  /\ [](\A r \in Refs :
          IsBatch(heap[r]) =>
            /\ BatchProgress(heap[r])
            /\ heap[r].speeches = origin[r][1])
  /\ [][/\ ~IsRestart =>
            \A r \in Refs : IsBatch(heap[r]) => BatchKeeps(heap[r], heap'[r])
        /\ (IsRestart /\ FileCurrent) =>
            \A i \in 1..Len(tasks) :
              IsBatch(heap[tasks[i]]) =>
                /\ i <= Len(tasks')
                /\ BatchKeeps(heap[tasks[i]], heap'[tasks'[i]])]_vars

\* A batch of three entries has all three synthesized.
C9_Witness ==
  \E r \in Refs :
    /\ IsBatch(heap[r])
    /\ heap[r].total_files = 3
    /\ heap[r].processed_files = 3

\* The calls of a log that raised, in order.
Thrown(log) == SelectSeq(log, LAMBDA e : e.outcome \in EngineMsgs)

\* The errors entries the calls of a log that raised account for.
ErrorsOf(log) ==
  [i \in 1..Len(Thrown(log)) |->
     [filename |-> Thrown(log)[i].out[2], error |-> Thrown(log)[i].outcome]]

Succeeded(log) == Len(SelectSeq(log, LAMBDA e : e.outcome = "ok"))

\* The entries of errors that are for an entry of speeches.
ItemErrors(t) == SelectSeq(t.errors, LAMBDA e : e.filename # BATCH_PROCESS)

\* The worker is between an engine call's end and the bookkeeping for it.
Bookkeeping(w) == wpc[w] \in {"item_inc", "item_except"}

\* C10: while and after the worker processes a batch, whenever it is not
\* in the middle of the bookkeeping for a call that just ended: the entries
\* of errors for speeches are exactly the calls that raised, in processing
\* order, each with its filename and message; processed_files is the number
\* of calls that returned; an entry of the handler of the whole batch is
\* there only when no call was made.
C10_ErrorBookkeeping ==
  \A w \in Workers :
    (OnBatch(w) /\ ~Bookkeeping(w)) =>
      LET t == heap[cur[w]]
      IN  /\ ItemErrors(t) = ErrorsOf(wlog[w])
          /\ t.processed_files = Succeeded(wlog[w])
          /\ Len(t.errors) <= Len(ItemErrors(t)) + 1
          /\ HasBatchError(t) => t.errors = <<[filename |-> BATCH_PROCESS,
                                               error |-> t.errors[1].error]>>

\* The worker is through with a batch of three entries of which only the
\* second raised.
C10_Witness ==
  \E w \in Workers :
    /\ OnBatch(w)
    /\ wpc[w] = "loop"
    /\ Len(wlog[w]) = 3
    /\ wlog[w][1].outcome = "ok"
    /\ wlog[w][2].outcome = "device busy"
    /\ wlog[w][3].outcome = "ok"
    /\ heap[cur[w]].processed_files = 2
    /\ heap[cur[w]].errors = <<[filename |-> FileName(2), error |-> "device busy"]>>
    /\ heap[cur[w]].status = COMPLETED

\* The records of the registry, in the dict's order.
Registry == [i \in 1..Len(tasks) |-> heap[tasks[i]]]

\* C11: a restart that loads a file written by a save of the current
\* registry yields a registry with the same IDs in the same order, each
\* record of the same variant and equal in every field.
C11_RoundTrip ==
  [][(IsRestart /\ FileCurrent) =>
       /\ Registry' = Registry
       /\ \A i \in 1..Len(tasks) : heap'[tasks'[i]].task_id = file.data[i].key]_vars

\* A new manager has loaded a single record and a batch record with
\* progress and errors, and the file is what a save of them writes.
C11_Witness ==
  /\ restarts = 1
  /\ FileCurrent
  /\ calls = {}
  /\ wpc = Idle
  /\ \E i, j \in 1..Len(tasks) :
       /\ ~IsBatch(heap[tasks[i]])
       /\ IsBatch(heap[tasks[j]])
       /\ heap[tasks[j]].processed_files > 0
       /\ heap[tasks[j]].errors # <<>>

\* C12: a load puts every well-formed record of the file into the registry,
\* whatever other records the file holds, and an absent file gives an empty
\* registry.
C12_LoadSkipsMalformed ==
  [][IsRestart =>
       /\ file.state = "valid" =>
            \A i \in 1..Len(file.data) :
              Parses(file.data[i].val) =>
                \E j \in 1..Len(tasks') :
                  heap'[tasks'[j]] = ParseTask(file.data[i].val)
       /\ file.state = "absent" => tasks' = <<>>]_vars

\* C13: whatever step is taken while the file holds a completed save, a
\* process that crashes right after the step and loads the file recovers no
\* fewer records than that save contained.
C13_CrashSafe ==
  [][file.state = "valid" =>
       Len(load_tasks(file')) >= Len(load_tasks(file))]_vars

\* A record that is PROCESSING and is no worker's current task.
Stranded(r) == heap[r].status = PROCESSING /\ \A w \in Workers : cur[w] # r

\* C14: a record a new manager loads with status PROCESSING is no worker's
\* task, and from then on no step of producers or the worker claims it or
\* changes any of its fields, so no engine call is made for it.
C14_NoResume ==
  [][/\ IsRestart =>
          \A r \in 1..Len(heap') : heap'[r].status = PROCESSING => Stranded(r)'
     /\ ~IsRestart =>
          \A r \in Refs :
            Stranded(r) => (heap'[r] = heap[r] /\ Stranded(r)')]_vars

\* After a restart a loaded record is still PROCESSING while the new worker
\* is through with another task.
C14_Witness ==
  /\ restarts = 1
  /\ \E r \in Refs, w \in Workers :
       /\ Stranded(r)
       /\ InRegistry(r)
       /\ Processed(w)
       /\ Terminal(heap[cur[w]])

\* The worker can take a step, or waits for a lock another thread holds.
CanStep(w) ==
  \/ ENABLED WorkerStep(w)
  \/ lock # None /\ lock # Some(WorkerHolder(w))

\* C15: the worker thread ends only at its loop test, with the running flag
\* false and no exception in hand; whatever raised before (the engine, its
\* construction, makedirs, a save), a worker that has not ended can take
\* its next step.
C15_WorkerSurvives ==
  /\ [](\A w \in Workers :
          /\ wpc[w] = "stopped" => ~running
          /\ wpc[w] # "stopped" => CanStep(w))
  /\ [][\A w \in Workers :
          (wpc[w] # "stopped" /\ wpc'[w] = "stopped") =>
            (wpc[w] = "loop" /\ ~running /\ exc[w] = "")]_vars

\* With the manager running, one task has FAILED, a save has failed and left
\* the file cut short, and the worker has claimed a later task.
C15_Witness ==
  /\ running
  /\ file.state = "partial"
  /\ lock = None
  /\ \E w \in Workers, r \in Refs :
       /\ heap[r].status = FAILED
       /\ cur[w] # 0 /\ cur[w] # r
       /\ heap[cur[w]].status = PROCESSING

\* The shutdown calls that found the manager shut down already.
Again(cs) == {c \in cs : c.kind = "shutdown_again"}

\* C16: once the running flag is false and the worker is at its loop test
\* or has ended, the worker starts no iteration and no record changes again;
\* a worker that has ended holds no task and has left no record PROCESSING
\* (a task in flight at shutdown ran to its terminal state); the save that
\* ends a task's processing, when it writes, writes the terminal record; a
\* repeated shutdown call changes neither the registry nor any record.
C16_Shutdown ==
  /\ [](\A w \in Workers :
          wpc[w] = "stopped" =>
            /\ cur[w] = 0
            /\ \A r \in Refs : heap[r].status # PROCESSING)
  /\ [][/\ (~running /\ \A w \in Workers : wpc[w] \in {"loop", "stopped"}) =>
             /\ \A r \in Refs : heap'[r] = heap[r]
             /\ \A w \in Workers : wpc'[w] \in {wpc[w], "stopped"}
        /\ \A w \in Workers :
             (/\ wpc[w] = "final_write" /\ wpc'[w] = "loop"
              /\ file' # file /\ InRegistry(cur[w])) =>
               /\ Terminal(heap[cur[w]])
               /\ \E i \in 1..Len(file'.data) :
                    file'.data[i].val = to_dict(heap[cur[w]])
        /\ Again(calls') # Again(calls) =>
             (heap' = heap /\ tasks' = tasks /\ ~running')]_vars

\* The worker ended after it finished the task it was on when shutdown was
\* called, a record stays PENDING, and a repeated shutdown call is in its
\* final save.
C16_Witness ==
  /\ \A w \in Workers : wpc[w] = "stopped"
  /\ \E r, q \in Refs :
       /\ InRegistry(r) /\ Terminal(heap[r])
       /\ InRegistry(q) /\ heap[q].status = PENDING
  /\ \E c \in Again(calls) : c.pc = "write"

WritePcs == {WritePc(pc) : pc \in SavePcs}

\* A step in which a save of the worker ended without the file written.
WorkerSaveFailed(w) ==
  /\ wpc[w] \in SavePcs \cup WritePcs
  /\ wpc'[w] \notin {wpc[w]} \cup WritePcs
  /\ file' = file

\* A step in which the save of call c ended without the file written.
CallSaveFailed(c) ==
  /\ c.pc \in {"save", "write"}
  /\ \A d \in calls' : d.ref # c.ref \/ d.kind # c.kind
  /\ file' = file

\* C18: a save that fails to write the file raises nothing: the worker goes
\* on where it goes on after a save that wrote, a producer call returns,
\* the lock is free, and the registry and all records are as they are; and
\* a save that writes a registry not changed since it was captured leaves
\* the file equal to the serialized registry.
C18_SaveErrorsSwallowed ==
  [][/\ \A w \in Workers :
          WorkerSaveFailed(w) =>
            /\ wpc'[w] = AfterSave(IF wpc[w] \in SavePcs THEN WritePc(wpc[w])
                                   ELSE wpc[w], heap[cur[w]])
            /\ heap' = heap /\ tasks' = tasks /\ cur' = cur /\ exc' = exc
            /\ lock' = None
     /\ \A c \in calls :
          CallSaveFailed(c) =>
            /\ calls' = calls \ {c}
            /\ heap' = heap /\ tasks' = tasks /\ wpc' = wpc
            /\ lock' = None
     /\ (file' # file /\ file'.state = "valid" /\ saving = Some(tasks_data)) =>
          FileCurrent']_vars

\* A save has failed and left the file cut short, and the worker is through
\* with a task that ended COMPLETED all the same.
C18_Witness ==
  /\ file.state = "partial"
  /\ lock = None
  /\ calls = {}
  /\ \E w \in Workers :
       /\ wpc[w] = "loop"
       /\ cur[w] # 0
       /\ heap[cur[w]].status = COMPLETED

\* C17: for every single and batch record, process_time is defined exactly
\* when start_time and end_time are both set; when it is defined, end_time
\* is not before start_time and process_time is their difference, not
\* negative.
C17_ProcessTime ==
  \A r \in Refs :
    LET t == heap[r] IN
      /\ process_time(t) # None <=> (t.start_time # None /\ t.end_time # None)
      /\ process_time(t) # None =>
           /\ t.end_time[1] >= t.start_time[1]
           /\ process_time(t) = Some(t.end_time[1] - t.start_time[1])
           /\ process_time(t)[1] >= 0

\* A single record with both times set and the clock advanced in between, a
\* batch record whose construction of the engine failed (end_time set,
\* start_time not), so that its process_time is absent.
C17_Witness ==
  \E r, q \in Refs :
    /\ ~IsBatch(heap[r])
    /\ process_time(heap[r]) # None
    /\ heap[r].end_time[1] > heap[r].start_time[1]
    /\ IsBatch(heap[q])
    /\ heap[q].start_time = None
    /\ heap[q].end_time # None
    /\ process_time(heap[q]) = None

\* C19: a get_task call changes nothing but the caller's result: registry,
\* records and file are as before; the result is absent exactly when no
\* record of the registry has the ID, and is otherwise the registry's record
\* of that ID; and it equals the result of every earlier call for the same
\* ID made with the registry and all records as they are now.
C19_GetTaskPure ==
  [][\A c \in calls' \ calls :
       c.kind = "get" =>
         /\ heap' = heap /\ tasks' = tasks /\ file' = file
         /\ saving' = saving /\ lock' = lock /\ wpc' = wpc /\ cur' = cur
         /\ c.result = None <=>
              \A i \in 1..Len(tasks) : heap[tasks[i]].task_id # c.id
         /\ c.result # None =>
              \E i \in 1..Len(tasks) :
                /\ heap[tasks[i]].task_id = c.id
                /\ c.result = Some(heap[tasks[i]])
         /\ \A d \in GetCalls :
              (d.id = c.id /\ d.at = <<heap, tasks>>) => d.result = c.result]_vars

\* Two calls for the ID of a record being processed, with nothing changed
\* between them, returned the same record, and a call for an ID the
\* registry does not hold returned nothing.
C19_Witness ==
  \E c, d, e \in GetCalls :
    /\ c.n < d.n
    /\ c.id = d.id /\ c.at = d.at
    /\ c.result # None /\ c.result = d.result
    /\ c.result[1].status = PROCESSING
    /\ e.result = None
    /\ Len(e.at[2]) > 0

\* C20: every record whose status is PROCESSING, COMPLETED or FAILED has
\* start_time set, in the registry and in every record of a written file.
C20_StartTimeAtClaim ==
  /\ \A r \in Refs :
       heap[r].status \in {PROCESSING, COMPLETED, FAILED} =>
         heap[r].start_time # None
  /\ file.state = "valid" =>
       \A i \in 1..Len(file.data) :
         file.data[i].val.status \in {PROCESSING, COMPLETED, FAILED} =>
           file.data[i].val.start_time # None

\* An engine call of worker w has started and not ended.
Calling(w) == \E j \in DOMAIN wlog[w] : wlog[w][j].outcome = "running"

\* C21: the registry lock is not held while a file write is in progress,
\* and a worker does not hold it while its engine call is in progress.
C21_LockScope ==
  /\ saving # None => lock = None
  /\ \A w \in Workers : Calling(w) => lock # Some(WorkerHolder(w))

\* C22: every write of a field of a record, and every read of the registry
\* size for a new task ID, is made by a thread holding the registry lock,
\* hence never while another thread holds it.
C22_LockDiscipline ==
  [][~IsRestart =>
       /\ \A r \in Refs : heap'[r] # heap[r] => lock = None
       /\ \A c \in calls' \ calls :
            (c.kind = "create" /\ ~IsBatch(heap'[c.ref])) => lock = None]_vars

\* The file holds a record with the ID, processed_files and errors of t.
Shows(t) ==
  \E i \in 1..Len(file.data) :
    /\ file.data[i].key = t.task_id
    /\ file.data[i].val.processed_files = t.processed_files
    /\ file.data[i].val.errors = t.errors

\* The worker is in the loop of a batch, between the attempt of one entry
\* and the engine call of the next.
BetweenItems(w) ==
  /\ OnBatch(w)
  /\ wpc[w] = "items"
  /\ 1 < item[w] /\ item[w] <= Len(heap[cur[w]].speeches)

\* C23: between the attempt of one entry of a batch and the engine call of
\* the next, a completely written file shows the batch's processed_files
\* and errors as they are in memory, whether the entry succeeded or raised.
C23_ItemProgressSaved ==
  \A w \in Workers :
    (BetweenItems(w) /\ file.state = "valid") => Shows(heap[cur[w]])

\* The same for an entry whose engine call returned: the save of line 426.
ProgressSavedAfterSuccess ==
  \A w \in Workers :
    (/\ BetweenItems(w) /\ file.state = "valid"
     /\ wlog[w][Len(wlog[w])].outcome = "ok") => Shows(heap[cur[w]])

\* The record holds the message of a failed construction of the engine.
InitFailed(t) ==
  IF IsBatch(t)
  THEN t.errors = <<[filename |-> BATCH_PROCESS, error |-> InitMsg]>>
  ELSE t.error = Some(InitMsg)

\* C24: no engine call is made while the engine handle is uninitialized;
\* while the worker handles a failed construction of the engine it is in the
\* task's handler, has made no engine call and the handle is still
\* uninitialized; the handler records the message in the task (error, or a
\* batch_process entry of errors); a task with that message has had no
\* engine call and, once the worker is through with it, is FAILED with
\* end_time set; and at _initialize_model with no handle the worker either
\* gets the handle or raises, for every task anew.
C24_LazyInit ==
  /\ [](\A w \in Workers :
          /\ wlog[w] # <<>> => tts_model = "ready"
          /\ exc[w] = InitMsg =>
               /\ wpc[w] = Handler(heap[cur[w]])
               /\ wlog[w] = <<>>
               /\ tts_model = "None"
          /\ (cur[w] # 0 /\ InitFailed(heap[cur[w]])) => wlog[w] = <<>>
          /\ (Processed(w) /\ InitFailed(heap[cur[w]])) =>
               /\ heap[cur[w]].status = FAILED
               /\ heap[cur[w]].end_time # None)
  /\ [][~IsRestart =>
          \A w \in Workers :
            /\ (wpc[w] = "init" /\ tts_model = "None" /\ wpc'[w] # "init") =>
                 \/ tts_model' = "ready" /\ wpc'[w] = "start" /\ exc'[w] = ""
                 \/ tts_model' = "None" /\ exc'[w] = InitMsg
            /\ (exc[w] = InitMsg /\ exc'[w] # InitMsg) =>
                 InitFailed(heap'[cur[w]])]_vars

\* A task whose construction of the engine failed is FAILED in the registry
\* and the worker is making an engine call for a later task.
C24_Witness ==
  \E r \in Refs, w \in Workers :
    /\ InRegistry(r)
    /\ InitFailed(heap[r])
    /\ heap[r].status = FAILED
    /\ heap[r].end_time # None
    /\ cur[w] # 0 /\ cur[w] # r
    /\ Calling(w)

\* Worker w has set the status of r to FAILED and not yet its end_time
\* (the handler's statements in their order).
Ending(w, r) == cur[w] = r /\ wpc[w] \in {"fail_end", "b_fail_end"}

Settled(t) ==
  /\ t.status \in {COMPLETED, FAILED} <=> t.end_time # None
  /\ ("error" \in DOMAIN t /\ t.status = FAILED) => t.error # None

\* C26: whenever the lock is free, so that get_task can return, every
\* record of the registry is COMPLETED or FAILED exactly when its end_time
\* is set (a FAILED single task has its error), and so is every record of
\* every completely written file.
C26_StatusEndTime ==
  /\ lock = None => \A r \in Refs : InRegistry(r) => Settled(heap[r])
  /\ file.state = "valid" =>
       \A i \in 1..Len(file.data) : Settled(file.data[i].val)

\* The thread of call reference r is about to ask for the lock at pc.
CallAt(r, pc) == \E c \in calls : c.ref = r /\ c.pc = pc

ProcessingRefs == {r \in Refs : InRegistry(r) /\ heap[r].status = PROCESSING}

\* C28 as claimed: at most one record of the registry is PROCESSING.
C28_AtMostOneProcessing == Cardinality(ProcessingRefs) <= 1

\* C28, amended: at most one record of the registry is PROCESSING as a
\* worker's task; any other PROCESSING record is the task of no worker and
\* exists only after a restart (which loaded it so); without a restart at
\* most one record is PROCESSING.
C28_OneProcessingPerWorker ==
  /\ Cardinality({r \in ProcessingRefs : ~Stranded(r)}) <= 1
  /\ (\E r \in Refs : Stranded(r)) => restarts > 0
  /\ restarts = 0 => Cardinality(ProcessingRefs) <= 1

\* After a restart the registry holds a record left PROCESSING and the
\* record the new worker is processing.
C28_Witness ==
  \E r \in ProcessingRefs, w \in Workers :
    /\ Stranded(r)
    /\ cur[w] \in ProcessingRefs
    /\ Calling(w)

\* No producer call is in progress and no worker holds a claimed task it
\* has not finished with.
Quiescent ==
  /\ calls = {}
  /\ \A w \in Workers : wpc[w] \in {"loop", "scan", "stopped"}

\* C29: whenever no producer call and no task processing is in progress
\* and the last save was not cut short, the file is the serialization of
\* the registry; before the first save there is no file and the registry is
\* empty.
C29_FileMirrorsRegistry ==
  (Quiescent /\ file.state # "partial") =>
    \/ FileCurrent
    \/ file = NoFile /\ tasks = <<>>

\* At rest, with every record terminal, among them a batch with an entry
\* that succeeded and one that raised, the file is the registry's
\* serialization.
C29_Witness ==
  /\ Quiescent
  /\ FileCurrent
  /\ Len(tasks) = MaxTasks
  /\ \A i \in 1..Len(tasks) : Terminal(heap[tasks[i]])
  /\ \E i \in 1..Len(tasks) :
       /\ IsBatch(heap[tasks[i]])
       /\ heap[tasks[i]].processed_files > 0
       /\ heap[tasks[i]].errors # <<>>

\* How far along the status state machine a status is.
Rank(s) == CASE s = PENDING -> 0 [] s = PROCESSING -> 1 [] OTHER -> 2

\* Every record of file content old is in content new under its key, with
\* a status, processed_files and errors that are not behind.
NoRegress(old, new) ==
  \A i \in 1..Len(old) :
    \E j \in 1..Len(new) :
      /\ new[j].key = old[i].key
      /\ Rank(new[j].val.status) >= Rank(old[i].val.status)
      /\ IsBatchDict(old[i].val) =>
           /\ IsBatchDict(new[j].val)
           /\ new[j].val.processed_files >= old[i].val.processed_files
           /\ Len(new[j].val.errors) >= Len(old[i].val.errors)

\* The threads inside the file write of a save.
Writers ==
  {WorkerHolder(w) : w \in {v \in Workers : wpc[v] \in WritePcs}}
    \cup {CallHolder(c) : c \in {d \in calls : d.pc = "write"}}

\* The file never goes backwards from one save to the next.
SavesMonotone ==
  /\ (file.state = "valid" /\ saving = None /\ saving' # None) =>
       NoRegress(file.data, saving'[1])
  /\ (saving # None /\ file'.state = "valid") => file'.data = saving[1]

\* C30: at most one thread is writing the file at any time; a save writes
\* the registry as it captured it in the same critical section; and what a
\* save captures is never behind the content the previous save wrote:
\* every record is still there, with status, processed_files and length of
\* errors not less than before.
C30_SavesNeverGoBack ==
  /\ [](Cardinality(Writers) <= 1)
  /\ [][SavesMonotone]_vars

\* The same from states in which no two task objects share an ID.
SavesNeverGoBackWithDistinctIds ==
  /\ [](Cardinality(Writers) <= 1)
  /\ [][DistinctIds' => SavesMonotone]_vars

====
